---- MODULE Spec2Model ----
(***************************************************************************)
(* A model of the ORD reporting tools: the four MCP tools (add_counterparty,*)
(* add_contract, add_advertising, add_act), the VK provider they call, the  *)
(* validators, the amount builder and the 400-error translator.             *)
(*                                                                          *)
(* Conventions.                                                             *)
(*  - A Python exception is a record [type, msg, status]; msg is the text   *)
(*    of str(e) as a sequence of string pieces (concatenation is \o).       *)
(*    The source's Russian messages are rendered in ASCII English.          *)
(*  - A JSON value is a tagged record [t, v] (t in obj, arr, str, null).    *)
(*  - A Decimal is [coef, exp]: the value coef * 10^(-exp).                 *)
(*  - A date string is [text, shape, y, m, d]; shape is "ok" for             *)
(*    dddd-dd-dd, "unpadded" for digits without the leading zeros,          *)
(*    "trailing" for a dddd-dd-dd text followed by the character x, and     *)
(*    "other" for any other text.                                           *)
(***************************************************************************)
EXTENDS Integers, Sequences, FiniteSets, TLC

VARIABLES
    env,      \* the process environment read at import: ORD_PROVIDER, ORD_API_KEY
    today,    \* the current UTC calendar date
    inv,      \* inv[i]: the state of tool invocation i
    amt,      \* the amount builder applied to drawn inputs (SpecAmount)
    chk       \* a validator or the translator applied to drawn inputs (SpecPure)

vars == <<env, today, inv, amt, chk>>

----------------------------------------------------------------------------
(* Bounds *)

\* excluding_vat is drawn as coef * 10^(-exp), coef in 0..MaxCoef
MaxCoef == 30
\* and exp in 1..MaxExp fractional digits (rubles with kopecks)
MaxExp == 2
\* the texts of a creative: lists of up to MaxTexts texts
MaxTexts == 3
\* the "errors" list of a 400 body: up to MaxErrors entries
MaxErrors == 2

Invocations == {1, 2}
IdPool == {"0123456789a-bcdef012", "fedcba98765-43210fed"}

----------------------------------------------------------------------------
(* Exceptions *)

NoExc == [type |-> "none", msg |-> << >>, status |-> 0]
Exc(type, msg) == [type |-> type, msg |-> msg, status |-> 0]
ValueError(msg) == Exc("ValueError", msg)

\* json.JSONDecodeError derives from ValueError: `except ValueError` catches both
IsValueError(e) == e.type \in {"ValueError", "JSONDecodeError"}

\* the exception types httpx itself raises
HttpClientExcTypes == {"HTTPStatusError", "TimeoutException", "ConnectError"}

----------------------------------------------------------------------------
(* Decimal arithmetic, as decimal.Decimal computes it for small operands *)

RECURSIVE Pow10(_)
Pow10(n) == IF n = 0 THEN 1 ELSE 10 * Pow10(n - 1)

Dec(c, e) == [coef |-> c, exp |-> e]

\* Decimal.__mul__: coefficients multiply, exponents add
DecMul(a, b) == Dec(a.coef * b.coef, a.exp + b.exp)

\* Decimal.__add__: align to the larger number of fractional digits
DecAdd(a, b) ==
    LET e == IF a.exp >= b.exp THEN a.exp ELSE b.exp
    IN  Dec(a.coef * Pow10(e - a.exp) + b.coef * Pow10(e - b.exp), e)

\* the default context's rounding, ROUND_HALF_EVEN, of n / d for n >= 0
DivHalfEven(n, d) ==
    LET q == n \div d
        r == n % d
    IN  IF 2 * r > d THEN q + 1
        ELSE IF 2 * r < d THEN q
        ELSE IF q % 2 = 0 THEN q ELSE q + 1

\* the rounding Decimal.quantize uses when none is given
QuantizeRound(n, d) == DivHalfEven(n, d)

\* the default context keeps 28 significant digits
getcontext_prec == 28

RECURSIVE Digits(_)
Digits(n) == IF n < 10 THEN 1 ELSE 1 + Digits(n \div 10)

\* quantize raises InvalidOperation when the coefficient of the result would
\* have more digits than the context's precision
QuantizeFits(a) == a.coef = 0 \/ Digits(a.coef) + 2 - a.exp <= getcontext_prec

InvalidOperation == Exc("InvalidOperation", <<"[<class 'decimal.InvalidOperation'>]">>)

\* Decimal.quantize(Decimal('0.01')): the value at exactly 2 fractional digits
Quantize2(a) ==
    IF a.exp <= 2 THEN Dec(a.coef * Pow10(2 - a.exp), 2)
    ELSE Dec(QuantizeRound(a.coef, Pow10(a.exp - 2)), 2)

----------------------------------------------------------------------------
(* src/utils.py: create_amount *)

VatRates == {0, 5, 7, 10, 20}

\* the literal each branch multiplies by: '0.05', '0.07', '0.10', '0.20'
RateLiteral(vat_rate) ==
    CASE vat_rate = 5  -> Dec(5, 2)
      [] vat_rate = 7  -> Dec(7, 2)
      [] vat_rate = 10 -> Dec(10, 2)
      [] vat_rate = 20 -> Dec(20, 2)

vat_decimal(excl_vat_decimal, vat_rate) ==
    IF vat_rate = 0 THEN Dec(0, 0)
    ELSE DecMul(excl_vat_decimal, RateLiteral(vat_rate))

\* excluding_vat is the Decimal of str(float): the input's shortest decimal
\* text, 1e+26 for the float 1e26 (coefficient 1, exponent 26)
create_amount(excluding_vat, vat_rate) ==
    IF vat_rate \notin VatRates
    THEN [ok |-> FALSE,
          exc |-> ValueError(<<"Unsupported VAT rate: ", ToString(vat_rate)>>)]
    ELSE LET excl == excluding_vat
             vat == vat_decimal(excl, vat_rate)
             incl == DecAdd(excl, vat)
         IN  IF ~QuantizeFits(excl) \/ ~QuantizeFits(vat) \/ ~QuantizeFits(incl)
             THEN [ok |-> FALSE, exc |-> InvalidOperation]
             ELSE
             [ok |-> TRUE,
              services |-> [excluding_vat |-> Quantize2(excl),
                            vat_rate |-> vat_rate,
                            vat |-> Quantize2(vat),
                            including_vat |-> Quantize2(incl)]]

----------------------------------------------------------------------------
(* src/config.py *)

\* an environment variable that is not set
Unset == "<unset>"
\* os.getenv(name, default)
Getenv(value, default) == IF value = Unset THEN default ELSE value
\* float(text), for the texts the model configures
Float(text) ==
    CASE text = "255" -> 255
      [] text = "100" -> 100

MAX_COUNTERPARTY_LENGTH_NAME == Float(Getenv(env.MAX_COUNTERPARTY_LENGTH_NAME, "255"))

----------------------------------------------------------------------------
(* Date strings and datetime.strptime(s, "%Y-%m-%d") *)

DateStr(text, shape, y, m, d) ==
    [text |-> text, shape |-> shape, y |-> y, m |-> m, d |-> d]

D_1990_12_31 == DateStr("1990-12-31", "ok", 1990, 12, 31)
D_1991_01_01 == DateStr("1991-01-01", "ok", 1991, 1, 1)
D_2025_01_10 == DateStr("2025-01-10", "ok", 2025, 1, 10)
D_2025_01_11 == DateStr("2025-01-11", "ok", 2025, 1, 11)
D_2025_01_20 == DateStr("2025-01-20", "ok", 2025, 1, 20)
D_2025_02_30 == DateStr("2025-02-30", "ok", 2025, 2, 30)
D_2025_13_01 == DateStr("2025-13-01", "ok", 2025, 13, 1)
D_2025_01_32 == DateStr("2025-01-32", "ok", 2025, 1, 32)
D_0000_01_01 == DateStr("0000-01-01", "ok", 0, 1, 1)
D_2025_1_1 == DateStr("2025-1-1", "unpadded", 2025, 1, 1)
D_2025_01_10x == DateStr("2025-01-10x", "trailing", 2025, 1, 10)
D_10_01_2025 == DateStr("10.01.2025", "other", 0, 0, 0)

\* a calendar date, as datetime.date orders it
Date(y, m, d) == [y |-> y, m |-> m, d |-> d]
DateOrd(dt) == dt.y * 10000 + dt.m * 100 + dt.d
DateLess(a, b) == DateOrd(a) < DateOrd(b)

IsLeap(y) == (y % 4 = 0 /\ y % 100 # 0) \/ y % 400 = 0
DaysInMonth(y, m) ==
    IF m = 2 THEN (IF IsLeap(y) THEN 29 ELSE 28)
    ELSE IF m \in {4, 6, 9, 11} THEN 30 ELSE 31

DoesNotMatchFormat == " does not match format "

\* _strptime: the pattern must match a prefix of the text (month 1..12; the
\* day pattern takes "3" alone from "32".."39"), nothing may remain after the
\* match, then the date is built, which rejects year 0 and a day the month
\* does not have
strptime(s) ==
    IF s.shape = "other" \/ s.m \notin 1..12 \/ s.d = 0
    THEN [ok |-> FALSE,
          exc |-> ValueError(<<"time data ", s.text, DoesNotMatchFormat, "%Y-%m-%d">>)]
    ELSE IF s.d > 31
    THEN [ok |-> FALSE,
          exc |-> ValueError(<<"unconverted data remains: ", ToString(s.d % 10)>>)]
    ELSE IF s.shape = "trailing"
    THEN [ok |-> FALSE, exc |-> ValueError(<<"unconverted data remains: ", "x">>)]
    ELSE IF s.y = 0
    THEN [ok |-> FALSE, exc |-> ValueError(<<"year 0 is out of range">>)]
    ELSE IF s.d > DaysInMonth(s.y, s.m)
    THEN [ok |-> FALSE, exc |-> ValueError(<<"day is out of range for month">>)]
    ELSE [ok |-> TRUE, date |-> Date(s.y, s.m, s.d)]

\* `piece in str(e)`, for a piece the message holds whole
InMsg(piece, e) == \E k \in 1..Len(e.msg) : e.msg[k] = piece

----------------------------------------------------------------------------
(* src/validators.py; each returns the exception it raises, or NoExc *)

\* the f-string prints the float limit: 255.0
NameTooLong ==
    ValueError(<<"Counterparty name is too long (maximum ",
                 ToString(MAX_COUNTERPARTY_LENGTH_NAME), ".0", " characters).">>)

\* as check_counterparty_name, rejecting a name of the maximum length too
check_counterparty_name_AtLimit(name) ==
    IF name >= MAX_COUNTERPARTY_LENGTH_NAME THEN NameTooLong ELSE NoExc

\* a name is modelled by its character count, all the check reads
check_counterparty_name(name) ==
    IF name > MAX_COUNTERPARTY_LENGTH_NAME THEN NameTooLong ELSE NoExc

check_format_date_in_contract(date) ==
    IF strptime(date).ok THEN NoExc
    ELSE ValueError(<<"Date must be in the format YYYY-MM-DD.">>)

\* as check_external_ids_of_client_and_contractor, accepting every pair
check_external_ids_of_client_and_contractor_Never(client_external_id, contractor_external_id) ==
    NoExc

check_external_ids_of_client_and_contractor(client_external_id, contractor_external_id) ==
    IF client_external_id = contractor_external_id
    THEN ValueError(<<"client_external_id and contractor_external_id must differ.">>)
    ELSE NoExc

RECURSIVE SumSeq(_)
SumSeq(s) == IF s = << >> THEN 0 ELSE Head(s) + SumSeq(Tail(s))

TextsTooLong(total_text_length) ==
    ValueError(<<"Total length of texts (", ToString(total_text_length),
                 ") exceeds 65,000 characters">>)

\* as check_texts_length_in_advertising, with the limit applied to each text
check_texts_length_in_advertising_PerText(texts) ==
    IF \E k \in 1..Len(texts) : texts[k] > 65000
    THEN TextsTooLong(SumSeq(texts))
    ELSE NoExc

\* each text is modelled by its length; texts is the list of lengths
check_texts_length_in_advertising(texts) ==
    LET total_text_length == SumSeq(texts)
    IN  IF total_text_length > 65000 THEN TextsTooLong(total_text_length) ELSE NoExc

min_date == Date(1991, 1, 1)

\* as check_dates_in_act_body, with an act dated today taken as a future one
check_dates_in_act_body_TodayRejected(date_act, date_start, date_end, now) ==
    LET pa == strptime(date_act)
        ps == strptime(date_start)
        pe == strptime(date_end)
    IN  IF ~pa.ok THEN pa.exc
        ELSE IF ~ps.ok THEN ps.exc
        ELSE IF ~pe.ok THEN pe.exc
        ELSE IF DateLess(pa.date, min_date) \/ DateLess(ps.date, min_date)
                \/ DateLess(pe.date, min_date)
        THEN ValueError(<<"Date cannot be earlier than 1991-01-01">>)
        ELSE IF DateLess(pe.date, ps.date)
        THEN ValueError(<<"date_start cannot be later than date_end">>)
        ELSE IF ~DateLess(pa.date, now)
        THEN ValueError(<<"Act date cannot be in the future">>)
        ELSE NoExc

\* the body of the try block: the exception it raises, or NoExc
check_dates_in_act_body(date_act, date_start, date_end, now) ==
    LET pa == strptime(date_act)
        ps == strptime(date_start)
        pe == strptime(date_end)
    IN  IF ~pa.ok THEN pa.exc
        ELSE IF ~ps.ok THEN ps.exc
        ELSE IF ~pe.ok THEN pe.exc
        ELSE IF DateLess(pa.date, min_date) \/ DateLess(ps.date, min_date)
                \/ DateLess(pe.date, min_date)
        THEN ValueError(<<"Date cannot be earlier than 1991-01-01">>)
        ELSE IF DateLess(pe.date, ps.date)
        THEN ValueError(<<"date_start cannot be later than date_end">>)
        ELSE IF DateLess(now, pa.date)
        THEN ValueError(<<"Act date cannot be in the future">>)
        ELSE NoExc

\* the except clause: a "does not match format" message becomes the
\* bad-format error, any other ValueError is re-raised as it is
check_dates_in_act(date_act, date_start, date_end, now) ==
    LET e == check_dates_in_act_body(date_act, date_start, date_end, now)
    IN  IF e = NoExc THEN NoExc
        ELSE IF InMsg(DoesNotMatchFormat, e)
        THEN ValueError(<<"Bad date format. Use YYYY-MM-DD">>)
        ELSE e

\* as check_roles_in_act, with the restriction put on the contractor's role
check_roles_in_act_Contractor(client_role, contractor_role) ==
    IF contractor_role = "advertiser"
    THEN ValueError(<<"Acts whose client is the advertiser are not supported yet.">>)
    ELSE NoExc

check_roles_in_act(client_role, contractor_role) ==
    IF client_role = "advertiser"
    THEN ValueError(<<"Acts whose client is the advertiser are not supported yet.">>)
    ELSE NoExc

----------------------------------------------------------------------------
(* JSON values, as response.json() returns them *)

JNull == [t |-> "null", v |-> << >>]
JStr(s) == [t |-> "str", v |-> s]
JArr(seq) == [t |-> "arr", v |-> seq]
\* an object is a function from its keys to JSON values
JObj(f) == [t |-> "obj", v |-> f]
EmptyDict == [k \in {} |-> JNull]

\* Python truthiness of None, str, list and dict
Truthy(j) ==
    CASE j.t = "null" -> FALSE
      [] j.t = "str"  -> j.v # ""
      [] j.t = "arr"  -> Len(j.v) > 0
      [] j.t = "obj"  -> DOMAIN j.v # {}

\* dict.get(k, default)
Get(o, k, default) == IF k \in DOMAIN o.v THEN o.v[k] ELSE default
\* a or b
Or(a, b) == IF Truthy(a) THEN a ELSE b
\* the text an f-string gives a value
ToText(j) ==
    CASE j.t = "str"  -> j.v
      [] j.t = "null" -> "None"
      [] j.t = "arr"  -> "<list>"
      [] j.t = "obj"  -> "<dict>"

----------------------------------------------------------------------------
(* src/utils.py: format_400_ord_error *)

DefaultBase == "Data validation error."
\* the bullet is U+2022 in the source
Bullet == "* ["
ValuePrefix == " Value: "

\* values[0] when values is truthy: a list's first item, a string's first
\* character; a non-empty dict has no key 0
FirstValue(values) ==
    CASE values.t = "arr" -> [ok |-> TRUE, text |-> ToText(values.v[1])]
      [] values.t = "str" -> [ok |-> TRUE, text |-> "<first character>"]
      [] values.t = "obj" -> [ok |-> FALSE, exc |-> Exc("KeyError", <<"0">>)]

\* as format_400_detail, without the value clause
format_400_detail_NoValue(err) ==
    IF err.t # "obj"
    THEN [ok |-> FALSE, exc |-> Exc("AttributeError", <<"object has no attribute 'get'">>)]
    ELSE LET field == Or(Or(Or(Get(err, "field", JNull), Get(err, "query_param", JNull)),
                            Get(err, "path_param", JNull)), JStr("unknown_field"))
             code == Get(err, "error_code", JStr("unknown_code"))
             message == Get(err, "message", JStr(""))
         IN  [ok |-> TRUE,
              line |-> <<Bullet, ToText(field), "] ", ToText(message), " (", ToText(code), ")">>]

\* one pass of the loop body: the line appended for entry err
format_400_detail(err) ==
    IF err.t # "obj"
    THEN [ok |-> FALSE, exc |-> Exc("AttributeError", <<"object has no attribute 'get'">>)]
    ELSE LET field == Or(Or(Or(Get(err, "field", JNull), Get(err, "query_param", JNull)),
                            Get(err, "path_param", JNull)), JStr("unknown_field"))
             code == Get(err, "error_code", JStr("unknown_code"))
             message == Get(err, "message", JStr(""))
             values == Get(err, "values", JArr(<< >>))
             first == FirstValue(values)
             line == <<Bullet, ToText(field), "] ", ToText(message), " (", ToText(code), ")">>
         IN  IF ~Truthy(values) THEN [ok |-> TRUE, line |-> line]
             ELSE IF ~first.ok THEN first
             ELSE [ok |-> TRUE, line |-> line \o <<ValuePrefix, first.text>>]

\* the loop: the lines for entries, "\n".join-ed, or the first exception
RECURSIVE format_400_details(_)
format_400_details(entries) ==
    IF entries = << >> THEN [ok |-> TRUE, lines |-> << >>]
    ELSE LET h == format_400_detail(Head(entries))
             r == format_400_details(Tail(entries))
         IN  IF ~h.ok THEN h
             ELSE IF ~r.ok THEN r
             ELSE [ok |-> TRUE,
                   lines |-> IF r.lines = << >> THEN h.line
                             ELSE h.line \o <<"\n">> \o r.lines]

\* what `for err in error_data.get("errors", [])` iterates over
format_400_iter(errors) ==
    CASE errors.t = "arr"  -> [ok |-> TRUE, entries |-> errors.v]
      [] errors.t = "null" ->
            [ok |-> FALSE, exc |-> Exc("TypeError", <<"'NoneType' object is not iterable">>)]
      [] errors.t = "str"  ->
            IF errors.v = "" THEN [ok |-> TRUE, entries |-> << >>]
            ELSE [ok |-> TRUE, entries |-> <<JStr("<character>")>>]
      [] errors.t = "obj"  ->
            IF DOMAIN errors.v = {} THEN [ok |-> TRUE, entries |-> << >>]
            ELSE [ok |-> TRUE, entries |-> <<JStr("<key>")>>]

format_400_ord_error(error_data) ==
    IF error_data.t # "obj"
    THEN [ok |-> FALSE, exc |-> Exc("AttributeError", <<"object has no attribute 'get'">>)]
    ELSE LET base == Or(Or(Get(error_data, "error", JNull),
                           Get(error_data, "message", JNull)), JStr(DefaultBase))
             it == format_400_iter(Get(error_data, "errors", JArr(<< >>)))
             details == format_400_details(it.entries)
         IN  IF ~it.ok THEN it
             ELSE IF ~details.ok THEN details
             ELSE IF details.lines = << >> THEN [ok |-> TRUE, msg |-> <<ToText(base)>>]
             ELSE IF base.t # "str"
             THEN [ok |-> FALSE, exc |-> Exc("TypeError", <<"can only concatenate str">>)]
             ELSE [ok |-> TRUE, msg |-> <<base.v, ":\n">> \o details.lines]

----------------------------------------------------------------------------
(* The provider's answer to a PUT, as the HTTP client delivers it *)

Http(status, body) == [kind |-> "http", status |-> status, body |-> body]
\* httpx.TimeoutException after 30 s, httpx.ConnectError
Timeout == [kind |-> "timeout", status |-> 0, body |-> [json |-> FALSE, data |-> JNull]]
NetworkFailure == [kind |-> "network", status |-> 0, body |-> [json |-> FALSE, data |-> JNull]]
NoResponse == [kind |-> "none", status |-> 0, body |-> [json |-> FALSE, data |-> JNull]]

BodyNotJson == [json |-> FALSE, data |-> JNull]
BodyJson(j) == [json |-> TRUE, data |-> j]

\* the error body of the provider's documentation
ErrEntry == JObj([field |-> JStr("name"), error_code |-> JStr("too_long"),
                  message |-> JStr("too long"), values |-> JArr(<<JStr("Acme Corp")>>)])
ErrBodyGood == JObj([error |-> JStr("bad input"), errors |-> JArr(<<ErrEntry>>)])
\* an entry that is not an object
ErrBodyMalformed == JObj([error |-> JStr("bad input"), errors |-> JArr(<<JStr("oops")>>)])

Responses ==
    { Http(200, BodyJson(JObj([erid |-> JStr("erid-1")]))),
      Http(201, BodyJson(JObj(EmptyDict))),
      Http(204, BodyNotJson),
      Http(301, BodyNotJson),
      Http(400, BodyJson(ErrBodyGood)),
      Http(400, BodyJson(ErrBodyMalformed)),
      Http(400, BodyJson(JArr(<< >>))),
      Http(400, BodyNotJson),
      Http(401, BodyNotJson),
      Http(403, BodyNotJson),
      Http(500, BodyNotJson),
      Timeout,
      NetworkFailure }

Is2xx(status) == status \in 200..299

HTTPStatusError(status) ==
    [type |-> "HTTPStatusError",
     msg |-> <<"HTTP status ", ToString(status), " for url">>,
     status |-> status]

\* Response.raise_for_status(): raises unless the status is a success (2xx)
raise_for_status(response) ==
    IF Is2xx(response.status) THEN NoExc ELSE HTTPStatusError(response.status)

\* Response.json()
response_json(response) ==
    IF response.body.json THEN [ok |-> TRUE, data |-> response.body.data]
    ELSE [ok |-> FALSE, exc |-> Exc("JSONDecodeError", <<"Expecting value">>)]

\* what `await client.put(...)` raises when no response arrives
put_exception(response) ==
    CASE response.kind = "timeout" -> Exc("TimeoutException", << >>)
      [] response.kind = "network" -> Exc("ConnectError", <<"All connection attempts failed">>)
      [] OTHER -> NoExc

----------------------------------------------------------------------------
(* src/api_ord.py: configuration and the provider factory *)

\* str(os.getenv(name)): an unset variable gives the text "None"
StrGetenv(value) == IF value = Unset THEN "None" ELSE value

ORD_PROVIDER == StrGetenv(env.ORD_PROVIDER)
ORD_API_KEY == StrGetenv(env.ORD_API_KEY)

\* str.lower() on the configured values of the model
Lower(s) ==
    CASE s = "VK" -> "vk"
      [] s = "XYZ" -> "xyz"
      [] s = "None" -> "none"
      [] OTHER -> s

\* as get_ord_provider, comparing the configured value as it is written
get_ord_provider_CaseSensitive ==
    LET provider == ORD_PROVIDER
    IN  IF provider = "vk" THEN [ok |-> TRUE, provider |-> "VK"]
        ELSE [ok |-> FALSE,
              exc |-> ValueError(<<"Unknown ORD provider: ", provider,
                                   ". Only the VK ORD provider is supported.">>)]

get_ord_provider ==
    LET provider == Lower(ORD_PROVIDER)
    IN  IF provider = "vk" THEN [ok |-> TRUE, provider |-> "VK"]
        ELSE [ok |-> FALSE,
              exc |-> ValueError(<<"Unknown ORD provider: ", provider,
                                   ". Only the VK ORD provider is supported.">>)]

BASE_URL == "https://api-sandbox.ord.vk.com"

headers == [Authorization |-> <<"Bearer ", ORD_API_KEY>>,
            ContentType |-> "application/json"]

PutRequest(path, id, payload) ==
    [method |-> "PUT", url |-> <<BASE_URL, path, id>>, json |-> payload,
     headers |-> headers]

InvalidApiKey == ValueError(<<"Invalid API key. Check the ORD_API_KEY environment variable.">>)

\* the 400 branch: the translator's text, or the fallback on any exception
message_for_400(response, fallback) ==
    LET j == response_json(response)
        f == format_400_ord_error(j.data)
    IN  IF j.ok /\ f.ok THEN f.msg ELSE <<fallback>>

----------------------------------------------------------------------------
(* src/api_ord.py: class VK.  Each operation is split at its one await:     *)
(* X_pre is what runs before the PUT (the exception raised, or NoExc),      *)
(* X_request the PUT it issues, X_response what it does with the answer.    *)

Raise(e) == [ok |-> FALSE, exc |-> e]

\* --- add_counterparty ---

VK_add_counterparty_request(counterparty_id, args) ==
    PutRequest("/v1/person/", counterparty_id,
               [name |-> args.name, roles |-> args.roles,
                juridical_details |-> [type |-> args.type, inn |-> args.inn]])

VK_add_counterparty_return(counterparty_id, response) ==
    [counterparty_id |-> counterparty_id, status_code |-> response.status]

\* as VK_add_counterparty_except, without the try/except around the parsing
VK_add_counterparty_except_NoFallback(e, response) ==
    IF e.status = 401 THEN InvalidApiKey
    ELSE IF e.status = 400
    THEN LET j == response_json(response)
             f == format_400_ord_error(j.data)
         IN  IF ~j.ok THEN j.exc
             ELSE IF ~f.ok THEN f.exc
             ELSE ValueError(f.msg)
    ELSE e

VK_add_counterparty_except(e, response) ==
    IF e.status = 401 THEN InvalidApiKey
    ELSE IF e.status = 400
    THEN ValueError(message_for_400(response,
            "Invalid counterparty data. Make sure all data is correct."))
    ELSE e

VK_add_counterparty_response(counterparty_id, response) ==
    LET pe == put_exception(response)
        se == raise_for_status(response)
    IN  IF pe # NoExc THEN Raise(pe)
        ELSE IF se # NoExc THEN Raise(VK_add_counterparty_except(se, response))
        ELSE [ok |-> TRUE, result |-> VK_add_counterparty_return(counterparty_id, response)]

\* --- add_contract ---

\* as VK_add_contract_pre, without the distinct-parties check
VK_add_contract_pre_NoPartiesCheck(args) ==
    check_format_date_in_contract(args.date)

VK_add_contract_pre(args) ==
    LET e1 == check_external_ids_of_client_and_contractor(
                  args.client_external_id, args.contractor_external_id)
        e2 == check_format_date_in_contract(args.date)
    IN  IF e1 # NoExc THEN e1 ELSE e2

VK_add_contract_request(contract_id, args) ==
    PutRequest("/v1/contract/", contract_id,
               [type |-> "service",
                client_external_id |-> args.client_external_id,
                contractor_external_id |-> args.contractor_external_id,
                date |-> args.date.text,
                subject_type |-> args.subject_type])

VK_add_contract_return(contract_id, response) ==
    [contract_id |-> contract_id, status_code |-> response.status]

\* as VK_add_contract_except, with the other HTTP errors wrapped, not re-raised
VK_add_contract_except_Wrapped(e, response) ==
    IF e.status = 401 THEN InvalidApiKey
    ELSE IF e.status = 400
    THEN ValueError(message_for_400(response,
            "Invalid contract data. Check the required fields."))
    ELSE ValueError(<<"ORD request failed: ", ToString(e.status)>>)

VK_add_contract_except(e, response) ==
    IF e.status = 401 THEN InvalidApiKey
    ELSE IF e.status = 400
    THEN ValueError(message_for_400(response,
            "Invalid contract data. Check the required fields."))
    ELSE e

VK_add_contract_response(contract_id, response) ==
    LET pe == put_exception(response)
        se == raise_for_status(response)
    IN  IF pe # NoExc THEN Raise(pe)
        ELSE IF se # NoExc THEN Raise(VK_add_contract_except(se, response))
        ELSE [ok |-> TRUE, result |-> VK_add_contract_return(contract_id, response)]

\* --- add_advertising ---

VK_add_advertising_pre(args) == check_texts_length_in_advertising(args.texts)

VK_add_advertising_request(creative_id, args) ==
    PutRequest("/v3/creative/", creative_id,
               [kktus |-> args.kktus, form |-> "text_block", texts |-> args.texts,
                contract_external_ids |-> args.contract_external_ids])

\* response_data.get("erid", None); None is rendered as the text "None"
VK_add_advertising_return(creative_id, response_data, response) ==
    [erid |-> ToText(Get(response_data, "erid", JNull)),
     creative_id |-> creative_id, status_code |-> response.status]

VK_add_advertising_except(e, response) ==
    IF e.status = 401 THEN InvalidApiKey
    ELSE IF e.status = 400
    THEN ValueError(message_for_400(response,
            "Invalid creative data. Make sure all data is correct."))
    ELSE IF e.status = 403
    THEN ValueError(<<"Access denied. Disallowed parameters may have been passed.">>)
    ELSE e

\* after raise_for_status, still inside the try: response.json() and .get,
\* whose exceptions no except clause of the operation catches
VK_add_advertising_response(creative_id, response) ==
    LET pe == put_exception(response)
        se == raise_for_status(response)
        j == response_json(response)
    IN  IF pe # NoExc THEN Raise(pe)
        ELSE IF se # NoExc THEN Raise(VK_add_advertising_except(se, response))
        ELSE IF ~j.ok THEN Raise(j.exc)
        ELSE IF j.data.t # "obj"
        THEN Raise(Exc("AttributeError", <<"object has no attribute 'get'">>))
        ELSE [ok |-> TRUE,
              result |-> VK_add_advertising_return(creative_id, j.data, response)]

\* --- add_act ---

\* the ID is generated first; then the dates are checked
VK_add_act_pre(args, now) ==
    check_dates_in_act(args.date_act, args.date_start, args.date_end, now)

VK_add_act_request(act_id, args, amount) ==
    PutRequest("/v4/invoice/", act_id,
               [contract_external_id |-> args.contract_external_id,
                date |-> args.date_act.text,
                date_start |-> args.date_start.text,
                date_end |-> args.date_end.text,
                amount |-> amount,
                client_role |-> args.client_role,
                contractor_role |-> args.contractor_role])

\* as VK_add_act_return, with the ID generated anew for the result
VK_add_act_return_Regenerated(act_id, response) ==
    [act_id |-> CHOOSE x \in IdPool : x # act_id, status_code |-> response.status]

VK_add_act_return(act_id, response) ==
    [act_id |-> act_id, status_code |-> response.status]

VK_add_act_except(e, response) ==
    IF e.status = 401 THEN InvalidApiKey
    ELSE IF e.status = 400
    THEN ValueError(message_for_400(response,
            "Invalid data. Make sure all data is correct."))
    ELSE IF e.status = 403
    THEN ValueError(<<"Access denied. Check your access rights.">>)
    ELSE e

VK_add_act_response(act_id, response) ==
    LET pe == put_exception(response)
        se == raise_for_status(response)
    IN  IF pe # NoExc THEN Raise(pe)
        ELSE IF se # NoExc THEN Raise(VK_add_act_except(se, response))
        ELSE [ok |-> TRUE, result |-> VK_add_act_return(act_id, response)]

----------------------------------------------------------------------------
(* src/tools/*.py: how a tool invocation ends *)

NoOutcome == [kind |-> "none", code |-> 0, message |-> << >>, result |-> << >>]
McpError(code, message) ==
    [kind |-> "McpError", code |-> code, message |-> message, result |-> << >>]
ToolResult(result) ==
    [kind |-> "result", code |-> 0, message |-> << >>, result |-> result]

\* the two except clauses of each tool: ValueError first, then Exception
add_counterparty_except(e) ==
    IF IsValueError(e)
    THEN McpError(-32602, <<"Error adding counterparty: ">> \o e.msg)
    ELSE McpError(-32603, <<"Error adding counterparty: ">> \o e.msg)

\* as add_contract_except, without the `except Exception` clause
add_contract_except_NoCatchAll(e) ==
    IF IsValueError(e)
    THEN McpError(-32602, <<"Error creating contract: ">> \o e.msg)
    ELSE [kind |-> "raised", code |-> 0, message |-> e.msg, result |-> << >>]

add_contract_except(e) ==
    IF IsValueError(e)
    THEN McpError(-32602, <<"Error creating contract: ">> \o e.msg)
    ELSE McpError(-32603, <<"Error creating contract: ">> \o e.msg)

add_advertising_except(e) ==
    IF IsValueError(e)
    THEN McpError(-32602, <<"Validation error creating creative: ">> \o e.msg)
    ELSE McpError(-32603, <<"Error creating creative: ">> \o e.msg)

add_act_except(e) ==
    IF IsValueError(e)
    THEN McpError(-32602, <<"Error creating act: ">> \o e.msg)
    ELSE McpError(-32603, <<"Error creating act: ">> \o e.msg)

----------------------------------------------------------------------------
(* The inputs the framework hands to the tools (schema-valid) *)

CounterpartyArgs ==
    { [name |-> n, roles |-> <<"advertiser">>, type |-> "juridical", inn |-> "7700000000"]
      : n \in {5, MAX_COUNTERPARTY_LENGTH_NAME, MAX_COUNTERPARTY_LENGTH_NAME + 1} }

ContractArgs ==
    { [client_external_id |-> c, contractor_external_id |-> k, date |-> d,
       subject_type |-> "other"]
      : c \in {"A", "B"}, k \in {"A", "B"}, d \in {D_2025_01_10, D_2025_02_30} }

AdvertisingArgs ==
    { [kktus |-> <<"1.1.1">>, texts |-> t, contract_external_ids |-> <<"A">>]
      : t \in { <<65000>>, <<30000, 35000>>, <<30000, 35001>> } }

ActDates ==
    { <<D_2025_01_10, D_1991_01_01, D_2025_01_20>>,
      <<D_2025_01_11, D_2025_01_10, D_2025_01_11>>,
      <<D_1990_12_31, D_1990_12_31, D_1990_12_31>>,
      <<D_2025_01_10, D_2025_01_20, D_2025_01_10>>,
      <<D_2025_02_30, D_2025_01_10, D_2025_01_20>>,
      <<D_2025_01_10, D_2025_13_01, D_2025_01_20>> }

ActArgs ==
    { [contract_external_id |-> "A", date_act |-> t[1], date_start |-> t[2],
       date_end |-> t[3], excluding_vat |-> Dec(5, 2), vat_rate |-> 10,
       client_role |-> cr, contractor_role |-> kr]
      : t \in ActDates, cr \in {"advertiser", "agency"}, kr \in {"advertiser", "agency"} }

----------------------------------------------------------------------------
(* State *)

Envs ==
    { [ORD_PROVIDER |-> p[1], ORD_API_KEY |-> p[2], MAX_COUNTERPARTY_LENGTH_NAME |-> Unset]
      : p \in { <<"vk", "secret">>, <<"VK", "secret">>, <<"xyz", "secret">>,
                <<"XYZ", "secret">>, <<Unset, "secret">>, <<"vk", Unset>> } }

\* the UTC date during the run
Today == Date(2025, 1, 10)

Idle ==
    [pc |-> "idle", tool |-> "none", args |-> << >>, now |-> Today,
     ctx |-> TRUE,           \* whether the framework passes a Context (ctx is not None)
     progress |-> << >>,     \* the values given to ctx.report_progress, in order
     metrics |-> << >>,      \* the counter increments made, in order
     ids |-> << >>,          \* the values generate_external_id returned
     puts |-> << >>,         \* the PUT requests issued
     response |-> NoResponse,
     provExc |-> NoExc,      \* the exception that left the provider operation
     exc |-> NoExc,          \* the exception the tool's try block caught
     outcome |-> NoOutcome]

AmtIdle == [pc |-> "idle", excluding_vat |-> Dec(0, 0), vat_rate |-> 0,
            out |-> [ok |-> FALSE, exc |-> NoExc]]

ChkIdle == [pc |-> "idle", fn |-> "none", args |-> << >>, out |-> NoExc]

Init ==
    /\ env \in Envs
    /\ today = Today
    /\ inv = [i \in Invocations |-> Idle]
    /\ amt = AmtIdle
    /\ chk = ChkIdle

\* Counter.labels(...).inc(): one increment of the counter's labelled series
Inc(counter, status) == [counter |-> counter, status |-> status]

\* `if ctx: await ctx.report_progress(progress, 100)`
Progress(rec, progress) ==
    IF rec.ctx THEN [rec EXCEPT !.progress = Append(@, progress)] ELSE rec

\* the tool was entered: progress 0 is reported, API_CALLS "started" is
\* counted, the try block begins
Started(tool, args, ctx) ==
    Progress([Idle EXCEPT !.pc = "running", !.tool = tool, !.args = args,
                          !.now = today, !.ctx = ctx,
                          !.metrics = <<Inc("API_CALLS", "started")>>], 0)

\* the counters of the two except clauses, the same in the four tools
except_metrics(e) ==
    IF IsValueError(e)
    THEN <<Inc("TOOL_CALLS", "validation_error"), Inc("EXECUTION_ERRORS", "validation"),
           Inc("API_CALLS", "error")>>
    ELSE <<Inc("TOOL_CALLS", "error"), Inc("EXECUTION_ERRORS", "execution"),
           Inc("API_CALLS", "error")>>

\* the counters of the success path; add_contract counts API_CALLS only
success_metrics(tool) ==
    IF tool = "add_contract" THEN <<Inc("API_CALLS", "success")>>
    ELSE <<Inc("TOOL_CALLS", "success"), Inc("API_CALLS", "success")>>

\* VK.generate_external_id(): a fresh uuid4, any value of the pool
Generated(rec, id) == [rec EXCEPT !.ids = Append(@, id)]

\* the PUT leaves; the operation waits at `await client.put(...)`
Sent(rec, request) == [rec EXCEPT !.pc = "awaiting", !.puts = Append(@, request)]

\* an exception raised in the tool's try block before the provider is called
ToolRaised(rec, e, outcome) ==
    [rec EXCEPT !.pc = "done", !.exc = e, !.outcome = outcome,
                !.metrics = @ \o except_metrics(e)]

\* an exception leaves the provider operation and reaches the tool
ProviderRaised(rec, e, outcome) ==
    [rec EXCEPT !.pc = "done", !.provExc = e, !.exc = e, !.outcome = outcome,
                !.metrics = @ \o except_metrics(e)]

\* the provider returned: progress 100, the success counters, the ToolResult
Returned(rec, result) ==
    [Progress(rec, 100) EXCEPT !.pc = "done", !.outcome = ToolResult(result),
                               !.metrics = @ \o success_metrics(rec.tool)]

----------------------------------------------------------------------------
(* Actions: each tool runs from its entry to its one await (Call_X), and    *)
(* from the provider's answer to its end (Recv_X).                          *)

Call_add_counterparty(i) ==
    /\ inv[i].pc = "idle"
    /\ \E args \in CounterpartyArgs, id \in IdPool :
         LET rec == Started("add_counterparty", args, inv[i].ctx)
             e1 == check_counterparty_name(args.name)
             prov == get_ord_provider
         IN  inv' = [inv EXCEPT ![i] =
                 IF e1 # NoExc
                 THEN ToolRaised(rec, e1, add_counterparty_except(e1))
                 ELSE IF ~prov.ok
                 THEN ToolRaised(rec, prov.exc, add_counterparty_except(prov.exc))
                 ELSE Sent(Generated(rec, id), VK_add_counterparty_request(id, args))]
    /\ UNCHANGED <<env, today, amt, chk>>

\* as Recv_add_counterparty, with the generated ID kept in one place shared
\* by the invocations: the result carries the ID generated last
Recv_add_counterparty_SharedId(i) ==
    /\ inv[i].pc = "awaiting"
    /\ inv[i].tool = "add_counterparty"
    /\ \E response \in Responses :
         LET rec == [inv[i] EXCEPT !.response = response]
             others == { j \in Invocations : j # i /\ inv[j].ids # << >> }
             shared == IF others = {} THEN inv[i].ids[1]
                       ELSE inv[CHOOSE j \in others : TRUE].ids[1]
             r == VK_add_counterparty_response(shared, response)
         IN  inv' = [inv EXCEPT ![i] =
                 IF r.ok THEN Returned(rec, r.result)
                 ELSE ProviderRaised(rec, r.exc, add_counterparty_except(r.exc))]
    /\ UNCHANGED <<env, today, amt, chk>>

Recv_add_counterparty(i) ==
    /\ inv[i].pc = "awaiting"
    /\ inv[i].tool = "add_counterparty"
    /\ \E response \in Responses :
         LET rec == [inv[i] EXCEPT !.response = response]
             r == VK_add_counterparty_response(inv[i].ids[1], response)
         IN  inv' = [inv EXCEPT ![i] =
                 IF r.ok THEN Returned(rec, r.result)
                 ELSE ProviderRaised(rec, r.exc, add_counterparty_except(r.exc))]
    /\ UNCHANGED <<env, today, amt, chk>>

Call_add_contract(i) ==
    /\ inv[i].pc = "idle"
    /\ \E args \in ContractArgs, id \in IdPool :
         LET rec == Started("add_contract", args, inv[i].ctx)
             prov == get_ord_provider
             e1 == VK_add_contract_pre(args)
         IN  inv' = [inv EXCEPT ![i] =
                 IF ~prov.ok
                 THEN ToolRaised(rec, prov.exc, add_contract_except(prov.exc))
                 ELSE IF e1 # NoExc
                 THEN ProviderRaised(rec, e1, add_contract_except(e1))
                 ELSE Sent(Generated(rec, id), VK_add_contract_request(id, args))]
    /\ UNCHANGED <<env, today, amt, chk>>

Recv_add_contract(i) ==
    /\ inv[i].pc = "awaiting"
    /\ inv[i].tool = "add_contract"
    /\ \E response \in Responses :
         LET rec == [inv[i] EXCEPT !.response = response]
             r == VK_add_contract_response(inv[i].ids[1], response)
         IN  inv' = [inv EXCEPT ![i] =
                 IF r.ok THEN Returned(rec, r.result)
                 ELSE ProviderRaised(rec, r.exc, add_contract_except(r.exc))]
    /\ UNCHANGED <<env, today, amt, chk>>

Call_add_advertising(i) ==
    /\ inv[i].pc = "idle"
    /\ \E args \in AdvertisingArgs, id \in IdPool :
         LET rec30 == Progress(Started("add_advertising", args, inv[i].ctx), 30)
             prov == get_ord_provider
             rec == Progress(rec30, 60)
             e1 == VK_add_advertising_pre(args)
         IN  inv' = [inv EXCEPT ![i] =
                 IF ~prov.ok
                 THEN ToolRaised(rec30, prov.exc, add_advertising_except(prov.exc))
                 ELSE IF e1 # NoExc
                 THEN ProviderRaised(rec, e1, add_advertising_except(e1))
                 ELSE Sent(Generated(rec, id), VK_add_advertising_request(id, args))]
    /\ UNCHANGED <<env, today, amt, chk>>

Recv_add_advertising(i) ==
    /\ inv[i].pc = "awaiting"
    /\ inv[i].tool = "add_advertising"
    /\ \E response \in Responses :
         LET rec == [inv[i] EXCEPT !.response = response]
             r == VK_add_advertising_response(inv[i].ids[1], response)
         IN  inv' = [inv EXCEPT ![i] =
                 IF r.ok THEN Returned(rec, r.result)
                 ELSE ProviderRaised(rec, r.exc, add_advertising_except(r.exc))]
    /\ UNCHANGED <<env, today, amt, chk>>

Call_add_act(i) ==
    /\ inv[i].pc = "idle"
    /\ \E args \in ActArgs, id \in IdPool :
         LET rec == Started("add_act", args, inv[i].ctx)
             e1 == check_dates_in_act(args.date_act, args.date_start, args.date_end, today)
             e2 == check_roles_in_act(args.client_role, args.contractor_role)
             amount == create_amount(args.excluding_vat, args.vat_rate)
             prov == get_ord_provider
             e3 == VK_add_act_pre(args, today)
         IN  inv' = [inv EXCEPT ![i] =
                 IF e1 # NoExc THEN ToolRaised(rec, e1, add_act_except(e1))
                 ELSE IF e2 # NoExc THEN ToolRaised(rec, e2, add_act_except(e2))
                 ELSE IF ~amount.ok
                 THEN ToolRaised(rec, amount.exc, add_act_except(amount.exc))
                 ELSE IF ~prov.ok
                 THEN ToolRaised(Progress(rec, 40), prov.exc, add_act_except(prov.exc))
                 ELSE IF e3 # NoExc
                 THEN ProviderRaised(Generated(Progress(rec, 40), id), e3,
                                     add_act_except(e3))
                 ELSE Sent(Generated(Progress(rec, 40), id),
                           VK_add_act_request(id, args, [services |-> amount.services]))]
    /\ UNCHANGED <<env, today, amt, chk>>

\* as Recv_add_act, sending the PUT once more after a 5xx answer or a timeout
Recv_add_act_Retry(i) ==
    /\ inv[i].pc = "awaiting"
    /\ inv[i].tool = "add_act"
    /\ \E response \in Responses :
         LET rec == [inv[i] EXCEPT !.response = response]
             r == VK_add_act_response(inv[i].ids[1], response)
             again == /\ Len(inv[i].puts) = 1
                      /\ \/ response.kind = "timeout"
                         \/ response.status >= 500
         IN  inv' = [inv EXCEPT ![i] =
                 IF again THEN [inv[i] EXCEPT !.puts = Append(@, inv[i].puts[1])]
                 ELSE IF r.ok THEN Returned(rec, r.result)
                 ELSE ProviderRaised(rec, r.exc, add_act_except(r.exc))]
    /\ UNCHANGED <<env, today, amt, chk>>

Recv_add_act(i) ==
    /\ inv[i].pc = "awaiting"
    /\ inv[i].tool = "add_act"
    /\ \E response \in Responses :
         LET rec == [inv[i] EXCEPT !.response = response]
             r == VK_add_act_response(inv[i].ids[1], response)
         IN  inv' = [inv EXCEPT ![i] =
                 IF r.ok THEN Returned(rec, r.result)
                 ELSE ProviderRaised(rec, r.exc, add_act_except(r.exc))]
    /\ UNCHANGED <<env, today, amt, chk>>

Next ==
    \/ \E i \in Invocations : Call_add_counterparty(i)
    \/ \E i \in Invocations : Recv_add_counterparty(i)
    \/ \E i \in Invocations : Call_add_contract(i)
    \/ \E i \in Invocations : Recv_add_contract(i)
    \/ \E i \in Invocations : Call_add_advertising(i)
    \/ \E i \in Invocations : Recv_add_advertising(i)
    \/ \E i \in Invocations : Call_add_act(i)
    \/ \E i \in Invocations : Recv_add_act(i)

Spec == Init /\ [][Next]_vars

----------------------------------------------------------------------------
(* One invocation on its own, entered through the framework (with a Context) *)
(* or called directly (ctx is None)                                          *)

InitTool ==
    /\ env \in Envs
    /\ today = Today
    /\ \E ctx \in BOOLEAN : inv = [i \in Invocations |-> [Idle EXCEPT !.ctx = ctx]]
    /\ amt = AmtIdle
    /\ chk = ChkIdle

NextTool ==
    \/ Call_add_counterparty(1)
    \/ Recv_add_counterparty(1)
    \/ Call_add_contract(1)
    \/ Recv_add_contract(1)
    \/ Call_add_advertising(1)
    \/ Recv_add_advertising(1)
    \/ Call_add_act(1)
    \/ Recv_add_act(1)

SpecTool == InitTool /\ [][NextTool]_vars

----------------------------------------------------------------------------
(* The amount builder on its own: create_amount applied to drawn inputs *)

\* 15 stands for the rates outside the supported set
DrawnRates == VatRates \cup {15}

\* the float 1e26, past the amounts whose cents fit 28 digits
LargeAmounts == { Dec(1, -26) }

DrawnAmounts == { Dec(c, e) : c \in 0..MaxCoef, e \in 1..MaxExp } \cup LargeAmounts

InitAmount ==
    /\ env = [ORD_PROVIDER |-> "vk", ORD_API_KEY |-> "secret",
              MAX_COUNTERPARTY_LENGTH_NAME |-> Unset]
    /\ today = Today
    /\ inv = [i \in Invocations |-> Idle]
    /\ amt = AmtIdle
    /\ chk = ChkIdle

AmountCall ==
    /\ amt.pc = "idle"
    /\ \E excluding_vat \in DrawnAmounts, r \in DrawnRates :
         amt' = [pc |-> "done", excluding_vat |-> excluding_vat, vat_rate |-> r,
                 out |-> create_amount(excluding_vat, r)]
    /\ UNCHANGED <<env, today, inv, chk>>

NextAmount == AmountCall

SpecAmount == InitAmount /\ [][NextAmount]_vars

----------------------------------------------------------------------------
(* The validators and the translator on their own, applied to drawn inputs *)

DateStrings ==
    { D_1990_12_31, D_1991_01_01, D_2025_01_10, D_2025_01_11, D_2025_01_20,
      D_2025_02_30, D_2025_13_01, D_2025_01_32, D_0000_01_01, D_2025_1_1,
      D_2025_01_10x, D_10_01_2025 }

Todays == { Today, Date(2025, 1, 11) }

Applied(fn, args, out) == [pc |-> "done", fn |-> fn, args |-> args, out |-> out]

\* the name limit left at its default, or configured as 100
PureEnvs ==
    { [ORD_PROVIDER |-> "vk", ORD_API_KEY |-> "secret", MAX_COUNTERPARTY_LENGTH_NAME |-> m]
      : m \in {Unset, "100"} }

NameLengths == {0, 99, 100, 101, 254, 255, 256}

TextLengths == {0, 1, 30000, 35000, 35001, 64999, 65000, 65001}
TextLists == UNION { [1..n -> TextLengths] : n \in 0..MaxTexts }

\* entries of the "errors" list: a body field with an offending value, a query
\* parameter without values, a path parameter with an empty values list, an
\* entry with no keys, a field with two offending values
ErrQuery == JObj([query_param |-> JStr("page"), error_code |-> JStr("invalid"),
                  message |-> JStr("must be positive")])
ErrPath == JObj([path_param |-> JStr("id"), error_code |-> JStr("bad_id"),
                 message |-> JStr("not a uuid"), values |-> JArr(<< >>)])
ErrBare == JObj(EmptyDict)
ErrTwoValues == JObj([field |-> JStr("inn"), error_code |-> JStr("bad_inn"),
                      message |-> JStr("checksum"),
                      values |-> JArr(<<JStr("123"), JStr("456")>>)])
ErrEntries == {ErrEntry, ErrQuery, ErrPath, ErrBare, ErrTwoValues}

\* the top-level keys: "error", only "message", neither, an empty "error"
TopLevels ==
    { [error |-> JStr("bad input")],
      [message |-> JStr("msg only")],
      EmptyDict,
      [error |-> JStr(""), message |-> JStr("second")] }

ErrorDatas ==
    { JObj(top) : top \in TopLevels }
    \cup { JObj(top @@ [errors |-> JArr(es)])
           : top \in TopLevels, es \in UNION { [1..n -> ErrEntries] : n \in 0..MaxErrors } }

InitPure ==
    /\ env \in PureEnvs
    /\ today \in Todays
    /\ inv = [i \in Invocations |-> Idle]
    /\ amt = AmtIdle
    /\ chk = ChkIdle

Apply_check_dates_in_act ==
    /\ chk.pc = "idle"
    /\ \E a \in DateStrings, b \in DateStrings, e \in DateStrings :
         chk' = Applied("check_dates_in_act",
                        [date_act |-> a, date_start |-> b, date_end |-> e],
                        check_dates_in_act(a, b, e, today))
    /\ UNCHANGED <<env, today, inv, amt>>

Apply_check_counterparty_name ==
    /\ chk.pc = "idle"
    /\ \E name \in NameLengths :
         chk' = Applied("check_counterparty_name", [name |-> name],
                        check_counterparty_name(name))
    /\ UNCHANGED <<env, today, inv, amt>>

Apply_check_texts_length_in_advertising ==
    /\ chk.pc = "idle"
    /\ \E texts \in TextLists :
         chk' = Applied("check_texts_length_in_advertising", [texts |-> texts],
                        check_texts_length_in_advertising(texts))
    /\ UNCHANGED <<env, today, inv, amt>>

Apply_format_400_ord_error ==
    /\ chk.pc = "idle"
    /\ \E error_data \in ErrorDatas :
         chk' = Applied("format_400_ord_error", [error_data |-> error_data],
                        format_400_ord_error(error_data))
    /\ UNCHANGED <<env, today, inv, amt>>

NextPure ==
    \/ Apply_check_dates_in_act
    \/ Apply_check_counterparty_name
    \/ Apply_check_texts_length_in_advertising
    \/ Apply_format_400_ord_error

SpecPure == InitPure /\ [][NextPure]_vars

----------------------------------------------------------------------------
(* Properties *)

Done(i) == inv[i].pc = "done"
GotHttp(i) == Done(i) /\ inv[i].response.kind = "http"
IsMcpError(i, code) == inv[i].outcome.kind = "McpError" /\ inv[i].outcome.code = code

\* some business-rule validator of the invocation's tool rejects its input
Rejects(rec) ==
    CASE rec.tool = "add_counterparty" ->
            check_counterparty_name(rec.args.name) # NoExc
      [] rec.tool = "add_contract" ->
            \/ check_external_ids_of_client_and_contractor(
                   rec.args.client_external_id, rec.args.contractor_external_id) # NoExc
            \/ check_format_date_in_contract(rec.args.date) # NoExc
      [] rec.tool = "add_advertising" ->
            check_texts_length_in_advertising(rec.args.texts) # NoExc
      [] rec.tool = "add_act" ->
            \/ check_dates_in_act(rec.args.date_act, rec.args.date_start,
                                  rec.args.date_end, rec.now) # NoExc
            \/ check_roles_in_act(rec.args.client_role, rec.args.contractor_role) # NoExc
      [] OTHER -> FALSE

\* C1: when a business-rule validator applicable to the invoked tool rejects
\* the input, the invocation issues no PUT.
C1_NoPutAfterRejection ==
    \A i \in Invocations : Rejects(inv[i]) => inv[i].puts = << >>

\* a rejected contract under a supported provider has ended with invalid-params,
\* while the other invocation did send its PUT
C1_Witness ==
    \E i, j \in Invocations :
        /\ Done(i) /\ inv[i].tool = "add_contract" /\ Rejects(inv[i])
        /\ get_ord_provider.ok /\ IsMcpError(i, -32602)
        /\ inv[j].tool = "add_contract" /\ Len(inv[j].puts) = 1

\* C2: an invocation ends either with a result (nothing was raised) or with
\* an McpError of code -32602 or -32603 whose message holds the tool's prefix
\* and the text of the exception raised; nothing else ends an invocation.
C2_ResultOrMcpError ==
    \A i \in Invocations :
        /\ inv[i].pc \in {"idle", "awaiting", "done"}
        /\ inv[i].outcome.kind \in {"none", "result", "McpError"}
        /\ Done(i) <=> inv[i].outcome.kind # "none"
        /\ Done(i) =>
              \/ inv[i].exc = NoExc /\ inv[i].outcome.kind = "result"
              \/ /\ inv[i].exc # NoExc
                 /\ inv[i].outcome.kind = "McpError"
                 /\ inv[i].outcome.code \in {-32602, -32603}
                 /\ Len(inv[i].outcome.message) >= 1
                 /\ Tail(inv[i].outcome.message) = inv[i].exc.msg

\* one invocation returned a result, another met a timeout and ended -32603
C2_Witness ==
    \E i, j \in Invocations :
        /\ Done(i) /\ inv[i].outcome.kind = "result"
        /\ Done(j) /\ inv[j].exc.type = "TimeoutException" /\ IsMcpError(j, -32603)

C4_Forbidden ==
    \A i \in Invocations :
        (GotHttp(i) /\ inv[i].response.status = 403)
            => inv[i].provExc.type = "ValueError"

\* the fixed message each operation substitutes for an untranslatable 400 body
Fallback400(tool) ==
    CASE tool = "add_counterparty" ->
            "Invalid counterparty data. Make sure all data is correct."
      [] tool = "add_contract" -> "Invalid contract data. Check the required fields."
      [] tool = "add_advertising" ->
            "Invalid creative data. Make sure all data is correct."
      [] tool = "add_act" -> "Invalid data. Make sure all data is correct."

\* the 400 body has an "errors" entry that is not an object
HasMalformedEntry(body) ==
    /\ body.json
    /\ body.data.t = "obj"
    /\ LET errors == Get(body.data, "errors", JArr(<< >>))
       IN  /\ errors.t = "arr"
           /\ \E k \in 1..Len(errors.v) : errors.v[k].t # "obj"

\* the body parses and the translator returns a text for it
Translatable(body) == body.json /\ format_400_ord_error(body.data).ok

\* C5: on a 400 answer the operation fails with a ValueError whose message is
\* the translator's output for the body, or the operation's fixed fallback
\* when the body is not JSON, not an object or has malformed entries; the
\* parse exception itself never leaves the operation.
C5_BadRequestTranslated ==
    \A i \in Invocations :
        (GotHttp(i) /\ inv[i].response.status = 400) =>
            LET body == inv[i].response.body
                fallback == <<Fallback400(inv[i].tool)>>
            IN  /\ inv[i].provExc.type = "ValueError"
                /\ inv[i].provExc.msg =
                      IF Translatable(body) THEN format_400_ord_error(body.data).msg
                      ELSE fallback
                /\ (~body.json \/ body.data.t # "obj" \/ HasMalformedEntry(body))
                      => inv[i].provExc.msg = fallback

\* one operation translated the documented error body, another fell back
\* on a body with a malformed entry
C5_Witness ==
    \E i, j \in Invocations :
        /\ GotHttp(i) /\ inv[i].response.status = 400
        /\ Translatable(inv[i].response.body)
        /\ inv[i].provExc.msg =
              <<"bad input", ":\n", "* [", "name", "] ", "too long", " (", "too_long",
                ")", " Value: ", "Acme Corp">>
        /\ GotHttp(j) /\ inv[j].response.status = 400
        /\ HasMalformedEntry(inv[j].response.body)
        /\ inv[j].tool # inv[i].tool
        /\ inv[j].provExc.msg = <<Fallback400(inv[j].tool)>>

\* the ID field of each operation's result
ResultId(tool, result) ==
    CASE tool = "add_counterparty" -> result.counterparty_id
      [] tool = "add_contract" -> result.contract_id
      [] tool = "add_advertising" -> result.creative_id
      [] tool = "add_act" -> result.act_id

\* C6: an operation returns a result, holding the generated ID and the
\* status code, exactly when the provider answered 2xx.
C6_ResultIff2xx ==
    \A i \in Invocations : GotHttp(i) =>
        /\ Is2xx(inv[i].response.status) <=> inv[i].outcome.kind = "result"
        /\ inv[i].outcome.kind = "result" =>
              /\ inv[i].outcome.result.status_code = inv[i].response.status
              /\ ResultId(inv[i].tool, inv[i].outcome.result) = inv[i].ids[1]

\* the resource path of each operation
PathOf(tool) ==
    CASE tool = "add_counterparty" -> "/v1/person/"
      [] tool = "add_contract" -> "/v1/contract/"
      [] tool = "add_advertising" -> "/v3/creative/"
      [] tool = "add_act" -> "/v4/invoice/"

\* C7: an invocation generates at most one external ID, exactly one when it
\* issues a PUT; the PUT's URL is the operation's path with that ID, and the
\* ID in a returned result is the one in the URL.
C7_ResultIdIsPathId ==
    \A i \in Invocations :
        /\ Len(inv[i].ids) <= 1
        /\ inv[i].puts # << >> =>
              /\ Len(inv[i].ids) = 1
              /\ inv[i].puts[1].method = "PUT"
              /\ inv[i].puts[1].url = <<BASE_URL, PathOf(inv[i].tool), inv[i].ids[1]>>
        /\ inv[i].outcome.kind = "result" =>
              /\ Len(inv[i].puts) = 1
              /\ ResultId(inv[i].tool, inv[i].outcome.result) = inv[i].puts[1].url[3]

\* two invocations of different tools returned, each with the ID of its own PUT
C7_Witness ==
    \E i, j \in Invocations :
        /\ inv[i].outcome.kind = "result" /\ inv[i].tool = "add_contract"
        /\ inv[j].outcome.kind = "result" /\ inv[j].tool = "add_act"
        /\ inv[i].ids # inv[j].ids

FailedAnswer(response) ==
    \/ response.kind \in {"timeout", "network"}
    \/ response.kind = "http" /\ ~Is2xx(response.status)

\* C8: an invocation issues at most one PUT; after a failed response, a
\* timeout or a network error it has ended with an McpError and sent nothing more.
C8_AtMostOnePut ==
    \A i \in Invocations :
        /\ Len(inv[i].puts) <= 1
        /\ FailedAnswer(inv[i].response) =>
              /\ Done(i)
              /\ inv[i].outcome.kind = "McpError"
              /\ Len(inv[i].puts) = 1

C8_Witness ==
    \E i, j \in Invocations :
        /\ Done(i) /\ inv[i].response.kind = "timeout" /\ inv[i].tool = "add_act"
        /\ inv[i].outcome.kind = "McpError" /\ Len(inv[i].puts) = 1
        /\ Done(j) /\ inv[j].response.kind = "http" /\ inv[j].response.status = 500

\* C9: the returned values satisfy including_vat = excluding_vat + vat.
C9_SumExact ==
    (amt.pc = "done" /\ amt.out.ok) =>
        amt.out.services.including_vat.coef =
            amt.out.services.excluding_vat.coef + amt.out.services.vat.coef

\* the exact value a, rounded to cents with ties away from zero
HalfUpCents(a) ==
    IF a.exp <= 2 THEN Dec(a.coef * Pow10(2 - a.exp), 2)
    ELSE LET d == Pow10(a.exp - 2)
         IN  Dec((2 * a.coef + d) \div (2 * d), 2)

\* C10: each returned monetary field is the exact value rounded to cents
\* with ties away from zero; vat is excluding_vat * vat_rate / 100 so rounded.
C10_HalfAwayFromZero ==
    (amt.pc = "done" /\ amt.out.ok) =>
        LET excl == amt.excluding_vat
            vat == Dec(excl.coef * amt.vat_rate, excl.exp + 2)
            incl == Dec(excl.coef * 100 + excl.coef * amt.vat_rate, excl.exp + 2)
        IN  /\ amt.out.services.excluding_vat = HalfUpCents(excl)
            /\ amt.out.services.vat = HalfUpCents(vat)
            /\ amt.out.services.including_vat = HalfUpCents(incl)

----------------------------------------------------------------------------
(* Properties of the validators *)

ChkDone(fn) == chk.pc = "done" /\ chk.fn = fn

\* the text denotes a day of the calendar, in the pattern's digits
IsCalendarDate(s) ==
    /\ s.shape \in {"ok", "unpadded"}
    /\ s.y >= 1
    /\ s.m \in 1..12
    /\ s.d \in 1..DaysInMonth(s.y, s.m)

OnOrAfter(s, dt) == DateOrd(Date(s.y, s.m, s.d)) >= DateOrd(dt)
NotAfter(s, dt) == DateOrd(Date(s.y, s.m, s.d)) <= DateOrd(dt)

\* C11: check_dates_in_act returns without error exactly when the three
\* strings parse as dates, each is on or after 1991-01-01, date_start is not
\* after date_end and date_act is not after the current UTC date (today itself
\* is accepted; date_start and date_end are not compared with today).
C11_DatesAccepted ==
    ChkDone("check_dates_in_act") =>
        LET a == chk.args.date_act
            b == chk.args.date_start
            e == chk.args.date_end
        IN  (chk.out = NoExc) <=>
               /\ IsCalendarDate(a) /\ IsCalendarDate(b) /\ IsCalendarDate(e)
               /\ OnOrAfter(a, Date(1991, 1, 1))
               /\ OnOrAfter(b, Date(1991, 1, 1))
               /\ OnOrAfter(e, Date(1991, 1, 1))
               /\ OnOrAfter(e, Date(b.y, b.m, b.d))
               /\ NotAfter(a, today)

\* an act dated today, for a period from 1991-01-01 to a day after today, passes
C11_Witness ==
    /\ ChkDone("check_dates_in_act")
    /\ chk.args.date_act = D_2025_01_10 /\ today = Date(2025, 1, 10)
    /\ chk.args.date_start = D_1991_01_01
    /\ chk.args.date_end = D_2025_01_20
    /\ chk.out = NoExc

BadFormat == ValueError(<<"Bad date format. Use YYYY-MM-DD">>)

\* C12: when one of the three strings is not a valid YYYY-MM-DD calendar date
\* (wrong shape, or a day that does not exist), check_dates_in_act fails with
\* the bad-format error, never with the parser's own error.
C12_BadFormatError ==
    ChkDone("check_dates_in_act") =>
        LET Valid(s) == s.shape = "ok" /\ IsCalendarDate(s)
        IN  (~Valid(chk.args.date_act) \/ ~Valid(chk.args.date_start)
                \/ ~Valid(chk.args.date_end))
               => chk.out = BadFormat

\* C17: check_texts_length_in_advertising fails exactly when the lengths of
\* the texts sum to more than 65000, however the total is split: exactly 65000
\* is accepted, 65001 is rejected.
C17_TextBudget ==
    ChkDone("check_texts_length_in_advertising") =>
        /\ (chk.out # NoExc) <=> (SumSeq(chk.args.texts) > 65000)
        /\ chk.out # NoExc => chk.out.type = "ValueError"
        /\ SumSeq(chk.args.texts) = 65000 => chk.out = NoExc
        /\ SumSeq(chk.args.texts) = 65001 => chk.out # NoExc

\* 65001 characters split over three texts, none near the limit, are rejected
C17_Witness ==
    /\ ChkDone("check_texts_length_in_advertising")
    /\ chk.args.texts = <<30000, 1, 35000>>
    /\ chk.out.type = "ValueError"

\* the maximum the configuration gives: 255 when the variable is not set
ConfiguredMaximum ==
    CASE env.MAX_COUNTERPARTY_LENGTH_NAME = Unset -> 255
      [] env.MAX_COUNTERPARTY_LENGTH_NAME = "100" -> 100

\* C19: check_counterparty_name fails with a ValueError exactly when the
\* name's character count exceeds the configured maximum (255 when not
\* configured): the maximum itself is accepted, one character more is rejected.
C19_NameLength ==
    ChkDone("check_counterparty_name") =>
        /\ (chk.out # NoExc) <=> (chk.args.name > ConfiguredMaximum)
        /\ chk.out # NoExc => chk.out.type = "ValueError"
        /\ chk.args.name = ConfiguredMaximum => chk.out = NoExc
        /\ chk.args.name = ConfiguredMaximum + 1 => chk.out # NoExc

\* with nothing configured a name of 256 characters is rejected
C19_Witness ==
    /\ ChkDone("check_counterparty_name")
    /\ env.MAX_COUNTERPARTY_LENGTH_NAME = Unset
    /\ chk.args.name = 256
    /\ chk.out.type = "ValueError"

HasKey(o, k) == k \in DOMAIN o.v
\* the key is present with a non-empty text
HasText(o, k) == HasKey(o, k) /\ o.v[k].v # ""

\* the top-level message of a body, the default one when it has none
TopMessage(d) ==
    IF HasText(d, "error") THEN d.v["error"].v
    ELSE IF HasText(d, "message") THEN d.v["message"].v
    ELSE DefaultBase

\* the name an entry is reported under
Locator(err) ==
    IF HasText(err, "field") THEN err.v["field"].v
    ELSE IF HasText(err, "query_param") THEN err.v["query_param"].v
    ELSE IF HasText(err, "path_param") THEN err.v["path_param"].v
    ELSE "unknown_field"

\* the bulleted line of one entry: [field] message (code), and the first
\* value when the entry has a non-empty values list
ExpectedLine(err) ==
    <<"* [", Locator(err), "] ",
      IF HasKey(err, "message") THEN err.v["message"].v ELSE "",
      " (",
      IF HasKey(err, "error_code") THEN err.v["error_code"].v ELSE "unknown_code",
      ")">>
    \o (IF HasKey(err, "values") /\ Len(err.v["values"].v) > 0
        THEN <<" Value: ", err.v["values"].v[1].v>>
        ELSE << >>)

\* the lines of entries k.. of the list, in the list's order, one per entry
RECURSIVE ExpectedLines(_, _)
ExpectedLines(es, k) ==
    IF k > Len(es) THEN << >>
    ELSE ExpectedLine(es[k]) \o (IF k < Len(es) THEN <<"\n">> ELSE << >>)
         \o ExpectedLines(es, k + 1)

\* C20: format_400_ord_error returns the top-level message (the default one
\* when absent) followed by one bulleted line per field error, in input order,
\* each "[field] message (code)" with the value clause only when the entry has
\* a non-empty values list, showing its first value; with no field errors it
\* returns the top-level message alone.
C20_FormattedErrors ==
    ChkDone("format_400_ord_error") =>
        LET d == chk.args.error_data
            es == IF HasKey(d, "errors") THEN d.v["errors"].v ELSE << >>
        IN  /\ chk.out.ok
            /\ chk.out.msg = IF es = << >> THEN <<TopMessage(d)>>
                             ELSE <<TopMessage(d), ":\n">> \o ExpectedLines(es, 1)

\* two entries, the second one with a value, come out in their order
C20_Witness ==
    /\ ChkDone("format_400_ord_error")
    /\ HasKey(chk.args.error_data, "errors")
    /\ chk.args.error_data.v["errors"].v = <<ErrQuery, ErrEntry>>
    /\ chk.out.ok
    /\ chk.out.msg =
          <<"bad input", ":\n",
            "* [", "page", "] ", "must be positive", " (", "invalid", ")", "\n",
            "* [", "name", "] ", "too long", " (", "too_long", ")",
            " Value: ", "Acme Corp">>

----------------------------------------------------------------------------
(* Properties of the configuration and of the tools' business rules *)

\* C13: when the API key or the provider selector is absent from the
\* configuration, no PUT is sent and every invocation ends with an error.
C13_NoPutWithoutConfig ==
    (env.ORD_API_KEY = Unset \/ env.ORD_PROVIDER = Unset) =>
        \A i \in Invocations :
            /\ inv[i].puts = << >>
            /\ Done(i) => inv[i].outcome.kind = "McpError"

\* the configured value is "vk" in some mix of upper and lower case
IsVkIgnoringCase(value) == value \in {"vk", "Vk", "vK", "VK"}

UnknownProvider(e) ==
    /\ e.type = "ValueError"
    /\ Len(e.msg) = 3
    /\ e.msg[1] = "Unknown ORD provider: "

\* C14: get_ord_provider returns the VK implementation exactly when the
\* configured provider equals "vk" ignoring case; for every other value it
\* fails with a ValueError whose message names the value (in lower case), so
\* an invocation that reaches the factory then sends no PUT and ends with
\* that error.
C14_ProviderFactory ==
    LET r == get_ord_provider
    IN  /\ r.ok <=> IsVkIgnoringCase(env.ORD_PROVIDER)
        /\ r.ok => r.provider = "VK"
        /\ ~r.ok =>
              /\ UnknownProvider(r.exc)
              /\ r.exc.msg[2] = Lower(StrGetenv(env.ORD_PROVIDER))
        /\ \A i \in Invocations :
              /\ inv[i].puts # << >> => IsVkIgnoringCase(env.ORD_PROVIDER)
              /\ (Done(i) /\ ~IsVkIgnoringCase(env.ORD_PROVIDER)
                    /\ inv[i].tool \in {"add_contract", "add_advertising"})
                  => /\ UnknownProvider(inv[i].exc)
                     /\ IsMcpError(i, -32602)

\* under XYZ a contract invocation ended naming xyz while a counterparty
\* invocation ended the same way
C14_Witness ==
    \E i, j \in Invocations :
        /\ env.ORD_PROVIDER = "XYZ"
        /\ Done(j) /\ inv[j].tool = "add_counterparty" /\ UnknownProvider(inv[j].exc)
        /\ Done(i) /\ inv[i].tool = "add_contract"
        /\ inv[i].exc.msg = <<"Unknown ORD provider: ", "xyz",
                              ". Only the VK ORD provider is supported.">>

SameParties(args) == args.client_external_id = args.contractor_external_id

\* C15: check_external_ids_of_client_and_contractor fails exactly when the
\* two IDs are equal, and no PUT to /v1/contract/{id} carries a payload whose
\* client_external_id equals its contractor_external_id.
C15_DistinctParties ==
    \A i \in Invocations : inv[i].tool = "add_contract" =>
        /\ (check_external_ids_of_client_and_contractor(
                inv[i].args.client_external_id, inv[i].args.contractor_external_id)
              # NoExc) <=> SameParties(inv[i].args)
        /\ \A k \in 1..Len(inv[i].puts) :
              /\ inv[i].puts[k].url[2] = "/v1/contract/"
              /\ inv[i].puts[k].json.client_external_id
                    # inv[i].puts[k].json.contractor_external_id
        /\ (SameParties(inv[i].args) /\ get_ord_provider.ok) =>
              /\ Done(i) /\ inv[i].puts = << >>
              /\ inv[i].provExc.type = "ValueError"
              /\ IsMcpError(i, -32602)

\* a contract between A and A was refused, one between A and B was sent
C15_Witness ==
    \E i, j \in Invocations :
        /\ inv[i].tool = "add_contract" /\ SameParties(inv[i].args)
        /\ Done(i) /\ get_ord_provider.ok /\ IsMcpError(i, -32602)
        /\ inv[j].tool = "add_contract" /\ Len(inv[j].puts) = 1
        /\ inv[j].puts[1].json.client_external_id = "A"
        /\ inv[j].puts[1].json.contractor_external_id = "B"

DatesPass(rec) ==
    check_dates_in_act(rec.args.date_act, rec.args.date_start, rec.args.date_end,
                       rec.now) = NoExc

\* C16: the role check of add_act fails exactly when client_role is
\* "advertiser", whatever contractor_role is; such an invocation ends with
\* McpError -32602 and no PUT, and no act PUT carries client_role "advertiser".
\* A contractor_role of "advertiser" alone is accepted.
C16_ClientRole ==
    \A i \in Invocations : inv[i].tool = "add_act" =>
        /\ (check_roles_in_act(inv[i].args.client_role, inv[i].args.contractor_role)
              # NoExc) <=> inv[i].args.client_role = "advertiser"
        /\ inv[i].args.client_role = "advertiser" =>
              /\ Done(i) /\ inv[i].puts = << >>
              /\ IsValueError(inv[i].exc)
              /\ IsMcpError(i, -32602)
        /\ (inv[i].args.client_role = "advertiser" /\ DatesPass(inv[i])) =>
              inv[i].exc =
                  check_roles_in_act(inv[i].args.client_role, inv[i].args.contractor_role)
        /\ (inv[i].args.client_role # "advertiser" /\ DatesPass(inv[i])
              /\ get_ord_provider.ok) => Len(inv[i].puts) = 1
        /\ \A k \in 1..Len(inv[i].puts) : inv[i].puts[k].json.client_role # "advertiser"

\* an act with the advertiser as client and good dates was refused; one with
\* the advertiser as contractor was sent
C16_Witness ==
    \E i, j \in Invocations :
        /\ inv[i].tool = "add_act" /\ inv[i].args.client_role = "advertiser"
        /\ inv[i].args.contractor_role = "agency" /\ DatesPass(inv[i])
        /\ IsMcpError(i, -32602)
        /\ inv[j].tool = "add_act" /\ inv[j].args.contractor_role = "advertiser"
        /\ Len(inv[j].puts) = 1
        /\ inv[j].puts[1].json.client_role = "agency"

----------------------------------------------------------------------------
(* Properties of the amount builder, continued *)

\* C18: create_amount fails with the unsupported-rate ValueError for every
\* vat_rate outside {0, 5, 7, 10, 20} and returns an amount structure for
\* every vat_rate inside it and every non-negative excluding_vat.
C18_RatesSupported ==
    amt.pc = "done" =>
        /\ amt.vat_rate \notin {0, 5, 7, 10, 20} =>
              /\ ~amt.out.ok
              /\ amt.out.exc.type = "ValueError"
              /\ amt.out.exc.msg = <<"Unsupported VAT rate: ", ToString(amt.vat_rate)>>
        /\ amt.vat_rate \in {0, 5, 7, 10, 20} => amt.out.ok

----------------------------------------------------------------------------
(* Properties of the invocations: independence, order, progress, counters *)

\* the exception, if any, that ends an invocation before its PUT, computed
\* from the invocation's own tool and arguments and the configuration
SoloBefore(rec) ==
    LET prov == get_ord_provider
        first(e1, e2) == IF e1 # NoExc THEN e1 ELSE e2
        config == IF prov.ok THEN NoExc ELSE prov.exc
    IN  CASE rec.tool = "add_counterparty" ->
                first(check_counterparty_name(rec.args.name), config)
          [] rec.tool = "add_contract" ->
                first(config, VK_add_contract_pre(rec.args))
          [] rec.tool = "add_advertising" ->
                first(config, VK_add_advertising_pre(rec.args))
          [] rec.tool = "add_act" ->
                first(check_dates_in_act(rec.args.date_act, rec.args.date_start,
                                         rec.args.date_end, rec.now),
                      first(check_roles_in_act(rec.args.client_role,
                                               rec.args.contractor_role),
                            config))

\* the PUT of an invocation, from its own ID and arguments
SoloRequest(rec) ==
    CASE rec.tool = "add_counterparty" -> VK_add_counterparty_request(rec.ids[1], rec.args)
      [] rec.tool = "add_contract" -> VK_add_contract_request(rec.ids[1], rec.args)
      [] rec.tool = "add_advertising" -> VK_add_advertising_request(rec.ids[1], rec.args)
      [] rec.tool = "add_act" ->
            VK_add_act_request(rec.ids[1], rec.args,
                [services |-> create_amount(rec.args.excluding_vat,
                                            rec.args.vat_rate).services])

\* what the operation makes of the answer to its own request
SoloAfter(rec) ==
    CASE rec.tool = "add_counterparty" ->
            VK_add_counterparty_response(rec.ids[1], rec.response)
      [] rec.tool = "add_contract" -> VK_add_contract_response(rec.ids[1], rec.response)
      [] rec.tool = "add_advertising" ->
            VK_add_advertising_response(rec.ids[1], rec.response)
      [] rec.tool = "add_act" -> VK_add_act_response(rec.ids[1], rec.response)

SoloExcept(rec, e) ==
    CASE rec.tool = "add_counterparty" -> add_counterparty_except(e)
      [] rec.tool = "add_contract" -> add_contract_except(e)
      [] rec.tool = "add_advertising" -> add_advertising_except(e)
      [] rec.tool = "add_act" -> add_act_except(e)

\* the outcome of an ended invocation, from its own inputs, the
\* configuration and the answer to its own request
SoloOutcome(rec) ==
    IF SoloBefore(rec) # NoExc THEN SoloExcept(rec, SoloBefore(rec))
    ELSE IF SoloAfter(rec).ok THEN ToolResult(SoloAfter(rec).result)
    ELSE SoloExcept(rec, SoloAfter(rec).exc)

\* C21: with invocations interleaved in any order, each invocation's request
\* and outcome are those its own inputs, the configuration and the answer to
\* its own request determine; what another invocation did changes neither.
C21_Independent ==
    \A i \in Invocations :
        /\ inv[i].pc = "idle" => inv[i] = Idle
        /\ inv[i].pc # "idle" =>
              /\ inv[i].puts = IF SoloBefore(inv[i]) # NoExc THEN << >>
                               ELSE <<SoloRequest(inv[i])>>
              /\ inv[i].pc = "awaiting" =>
                    /\ SoloBefore(inv[i]) = NoExc
                    /\ inv[i].response = NoResponse
                    /\ inv[i].outcome = NoOutcome
              /\ Done(i) => inv[i].outcome = SoloOutcome(inv[i])

\* one counterparty invocation ended with its own ID while another, entered
\* with another ID, still waits for its answer
C21_Witness ==
    \E i, j \in Invocations :
        /\ inv[i].tool = "add_counterparty" /\ inv[i].outcome.kind = "result"
        /\ inv[j].tool = "add_counterparty" /\ inv[j].pc = "awaiting"
        /\ inv[i].ids # inv[j].ids
        /\ inv[i].outcome.result.counterparty_id = inv[i].ids[1]

\* C22: the validators of the invoked tool run before the provider factory:
\* an invalid input under an unsupported provider fails with the validation
\* error, not with the configuration error.
C22_ValidatorsBeforeFactory ==
    \A i \in Invocations :
        (Done(i) /\ Rejects(inv[i]) /\ ~get_ord_provider.ok)
            => ~UnknownProvider(inv[i].exc)

\* how many of the increments of seq are among wanted
Count(seq, wanted) == Cardinality({ k \in 1..Len(seq) : seq[k] \in wanted })

NonDecreasing(seq) == \A k \in 1..(Len(seq) - 1) : seq[k] <= seq[k + 1]

\* C23: with a context supplied, an invocation reports 0 before anything
\* else, the reported values never decrease, a successful invocation reports
\* a value strictly between 0 and 100 and then 100, and a failing one never
\* reports 100.
C23_Progress ==
    \A i \in Invocations : (inv[i].ctx /\ inv[i].pc # "idle") =>
        LET progress == inv[i].progress
        IN  /\ Len(progress) >= 1 /\ progress[1] = 0
            /\ NonDecreasing(progress)
            /\ inv[i].outcome.kind = "result" =>
                  /\ progress[Len(progress)] = 100
                  /\ \E k \in 1..Len(progress) : 0 < progress[k] /\ progress[k] < 100
            /\ inv[i].outcome.kind # "result" =>
                  \A k \in 1..Len(progress) : progress[k] # 100

\* C24: an ended invocation has counted API_CALLS "started" once, one terminal
\* API_CALLS status and one TOOL_CALLS status, matching its outcome.
C24_Counters ==
    \A i \in Invocations : Done(i) =>
        LET Api(statuses) == { Inc("API_CALLS", st) : st \in statuses }
            Tool(statuses) == { Inc("TOOL_CALLS", st) : st \in statuses }
            metrics == inv[i].metrics
        IN  /\ Count(metrics, Api({"started"})) = 1
            /\ Count(metrics, Api({"success", "error"})) = 1
            /\ Count(metrics, Tool({"success", "validation_error", "error"})) = 1
            /\ inv[i].outcome.kind = "result" =>
                  /\ Count(metrics, Api({"success"})) = 1
                  /\ Count(metrics, Tool({"success"})) = 1
            /\ IsMcpError(i, -32602) =>
                  /\ Count(metrics, Api({"error"})) = 1
                  /\ Count(metrics, Tool({"validation_error"})) = 1
            /\ IsMcpError(i, -32603) =>
                  /\ Count(metrics, Api({"error"})) = 1
                  /\ Count(metrics, Tool({"error"})) = 1

====
